---- MODULE Spec2Model ----
(***************************************************************************)
(* The USB/IP connection pipeline of src/src/socket.rs: one connection's   *)
(* reader task decodes commands from the peer and pushes UsbIpPackets on   *)
(* the shared packet_queue; the writer task drains the queue, cancels on   *)
(* UNLINK and writes the responses.  Both tasks are spawned per accepted   *)
(* connection in src/src/server.rs and share the queue behind a mutex.     *)
(***************************************************************************)
EXTENDS Integers, Sequences, FiniteSets, TLC

\* ------------------------------------------------------------------ bounds
\* Number of 4-byte commands the peer sends before the stream ends.
MaxLen == 4

\* Longest buffer verify_descriptor is called with; its bytes are
\* 0..MaxDescLen.
MaxDescLen == 4

\* Largest max_packet_size of an endpoint of the host device.
MaxPacketSize == 2

\* ------------------------------------------------------- program constants
ECONNRESET == 104
BUS_ID_LEN == 32


\* ------------------------------------------------------------ byte helpers
\* A u32 is kept as its 32-bit pattern read as two's complement: the values
\* from 2^31 on are the negative numbers, so that every u32 can be held.
\* write_u32: four bytes, big-endian.
U32Bytes(n) ==
    LET m == IF n >= 0 THEN n ELSE (n + 2147483647) + 1
        top == IF n >= 0 THEN 0 ELSE 128
    IN  << top + (m \div 16777216), (m \div 65536) % 256,
           (m \div 256) % 256, m % 256 >>

\* write_i32: four bytes, big-endian, two's complement.
I32Bytes(n) == U32Bytes(n)

\* Vec::resize(len, 0): truncate or zero-pad to len bytes.
Resize(s, len) == [i \in 1..len |-> IF i <= Len(s) THEN s[i] ELSE 0]

Zeros(n) == [i \in 1..n |-> 0]

RECURSIVE Flatten(_)
Flatten(ss) == IF ss = <<>> THEN <<>> ELSE Head(ss) \o Flatten(Tail(ss))

\* Vec::remove(i) with i counted from 1.
RemoveAt(q, i) == SubSeq(q, 1, i - 1) \o SubSeq(q, i + 1, Len(q))

\* Iterator::position: the first index whose packet carries sequence number
\* n, 0 for None.
Position(q, n) ==
    IF \E i \in 1..Len(q) : q[i].sequence_number = n
    THEN CHOOSE i \in 1..Len(q) :
            /\ q[i].sequence_number = n
            /\ \A j \in 1..(i - 1) : q[j].sequence_number # n
    ELSE 0

\* ----------------------------------------------------------------- devices
\* UsbIpServer.devices: bus_id is the string's bytes, each interface is the
\* set of its endpoint addresses.
DevA  == [name |-> "A",  bus_id |-> <<48>>, interfaces |-> << {129, 2} >>]
DevA2 == [name |-> "A2", bus_id |-> <<48>>, interfaces |-> << {131}, {} >>]
DevB  == [name |-> "B",  bus_id |-> <<49>>, interfaces |-> << {}, {}, {} >>]

\* The device lists a server is constructed with.
ServerDevices == { <<>>, <<DevA>>, <<DevA, DevB>>, <<DevB, DevA, DevA2>> }

\* UsbDevice::write_dev: path[256], bus_id[32], bus_num, dev_num, speed (u32),
\* vendor, product, bcd (u16), class, subclass, protocol, configuration
\* value, number of configurations, number of interfaces (u8).
WriteDevLen(dev) == 256 + 32 + 3 * 4 + 3 * 2 + 6

\* UsbDevice::write_dev_with_interfaces: the record, then class, subclass,
\* protocol and a padding byte per interface.
WriteDevWithInterfacesLen(dev) == WriteDevLen(dev) + 4 * Len(dev.interfaces)

\* UsbDevice::find_ep: EP0 in and out, then every interface's endpoints,
\* matched on the whole address.
FindEp(dev, address) ==
    \/ address \in {128, 0}
    \/ \E i \in 1..Len(dev.interfaces) : address \in dev.interfaces[i]

DeviceDescriptor == [i \in 1..18 |-> IF i = 1 THEN 18 ELSE IF i = 2 THEN 1 ELSE 0]

\* UsbDevice::handle_urb: the bytes the device answers with, or an error.
\* An OUT transfer answers with no bytes.
HandleUrbResults(dev, address) ==
    { [ok |-> TRUE, resp |-> <<>>], [ok |-> FALSE, resp |-> <<>>] }
    \cup (IF address >= 128 THEN { [ok |-> TRUE, resp |-> DeviceDescriptor] }
          ELSE {})

\* ------------------------------------------------------- what the peer sends
OP_REQ_DEVLIST   == <<1, 17, 128, 5>>
OP_REQ_IMPORT    == <<1, 17, 128, 3>>
USBIP_CMD_SUBMIT == <<0, 0, 0, 1>>
USBIP_CMD_UNLINK == <<0, 0, 0, 2>>
UnknownCommand   == <<0, 0, 0, 9>>

Commands ==
    { OP_REQ_DEVLIST, OP_REQ_IMPORT, USBIP_CMD_SUBMIT, USBIP_CMD_UNLINK,
      UnknownCommand }

PeerDevId == 1 * 65536 + 2
GetDescriptorSetup == <<128, 6, 0, 1, 0, 0, 64, 0>>
OutSetup == <<0, 0, 0, 0, 0, 0, 0, 0>>

\* The 32 bus-id bytes of an OP_REQ_IMPORT: "0" and "2" zero-padded.
PeerBusIds ==
    { Resize(<<48>>, BUS_ID_LEN), Resize(<<50>>, BUS_ID_LEN) }

\* What follows the command of a USBIP_CMD_SUBMIT: the sequence number, the
\* 40 header bytes as the reader's cursor sees them, i.e. eight u32 (dev_id,
\* direction, ep, transfer_flags, transfer_buffer_length, start_frame,
\* number_of_packets, interval) and the eight setup bytes, and the payload.
\* Sequence number 0 is also what the reader gives ReqDevlist and ReqImport.
\* The first reads the device descriptor from endpoint 0, the second writes
\* one byte to OUT endpoint 1, the third reads up to 8 bytes from IN endpoint
\* 1 and, being an IN transfer, carries no payload.
PeerSubmits ==
    { [seq_num |-> 0, hdr |-> <<PeerDevId, 1, 0, 0, 0, 0, 0, 0>>,
       setup |-> GetDescriptorSetup, payload |-> <<>>],
      [seq_num |-> 7, hdr |-> <<PeerDevId, 0, 1, 0, 1, 0, 0, 0>>,
       setup |-> OutSetup, payload |-> <<9>>],
      [seq_num |-> 3, hdr |-> <<PeerDevId, 1, 1, 0, 8, 0, 0, 0>>,
       setup |-> OutSetup, payload |-> <<>>] }

\* What follows the command of a USBIP_CMD_UNLINK: the sequence number and
\* the 16 data bytes as four u32: dev_id, direction, ep, seq_num_to_unlink.
\* The UNLINK has the sequence number of the second SUBMIT above and asks to
\* unlink sequence number 0, that of the first.
PeerUnlinks ==
    { [seq_num |-> 7, data |-> <<PeerDevId, 1, 3, 0>>] }

VARIABLES
    server,                 \* UsbIpServer.devices
    parked,                 \* the connection whose tasks are not at a step
    desc,                   \* verify_descriptor: the buffer it is called with
    offset,                 \* verify_descriptor: offset
    turns,                  \* history: turns of verify_descriptor's loop
    vresult,                \* verify_descriptor: how far the call has come
    urb,                    \* UsbHostInterfaceHandler::handle_urb: the call
    packet_queue,           \* Arc<Mutex<Vec<UsbIpPacket>>>
    lock,                   \* who holds the queue mutex: "free" or "writer"
    rpc,                    \* reader: the read it is at
    rpkt,                   \* reader: the packet decoded and not yet pushed
    rresult,                \* reader: its return value once it has returned
    nread,                  \* number of frames the peer has sent
    stream,                 \* bytes sent by the peer, not yet read
    wpc,                    \* writer: the step it is at
    usubmit_items,          \* writer: usubmit_items still to process
    pending,                \* writer: USBIP_RET_UNLINK being written
    current_pkt,            \* writer: current_pkt (<<>> for None)
    current_import_device,  \* writer: index into server, 0 for None
    go_to_sleep,            \* writer: go_to_sleep
    duration,               \* writer: microseconds of the last sleep chosen
    wresult,                \* writer: how it ended once it has ended
    out,                    \* the frames written to the socket, in order
    pushed,                 \* history: [id, enum_command] of every packet pushed
    iter_queue,             \* history: the queue as the writer locked it
    cancelled,              \* history: [by, id, enum_command]: UNLINK by
                            \* removed packet id as the one to unlink
    dispatched,             \* history: ids find_ep was called for
    urb_results             \* history: [id, ok, resp] handle_urb returned

vars ==
    << server, parked, desc, offset, turns, vresult, urb, packet_queue, lock,
       rpc,
       rpkt, rresult, nread, stream, wpc,
       usubmit_items, pending, current_pkt, current_import_device,
       go_to_sleep, duration, wresult, out, pushed, iter_queue, cancelled,
       dispatched, urb_results >>

callVars == << desc, offset, turns, vresult, urb >>
readerVars == << rpc, rpkt, rresult, nread, stream >>
writerVars ==
    << wpc, usubmit_items, pending, current_pkt, current_import_device,
       go_to_sleep, duration, wresult >>
historyVars == << pushed, iter_queue, cancelled, dispatched, urb_results >>

Running == [ret |-> "running", stage |-> "", kind |-> ""]
NoPacket == <<>>
NoFrame == <<>>
NoConnection == <<>>
NoCall == <<>>

\* A connection as accept leaves it, its peer not having sent anything.
InitConnection ==
    /\ parked = NoConnection
    /\ packet_queue = <<>>
    /\ lock = "free"
    /\ rpc = "command"
    /\ rpkt = NoPacket
    /\ rresult = Running
    /\ nread = 0
    /\ stream = <<>>
    /\ wpc = "lock"
    /\ usubmit_items = <<>>
    /\ pending = NoFrame
    /\ current_pkt = NoPacket
    /\ current_import_device = 0
    /\ go_to_sleep = 0
    /\ duration = 0
    /\ wresult = "running"
    /\ out = <<>>
    /\ pushed = {}
    /\ iter_queue = <<>>
    /\ cancelled = {}
    /\ dispatched = {}
    /\ urb_results = {}

\* No call of verify_descriptor or of the host handler is under way.
NoCalls ==
    /\ desc = <<>>
    /\ offset = 0
    /\ turns = 0
    /\ vresult = "none"
    /\ urb = NoCall

Init ==
    /\ server \in ServerDevices
    /\ InitConnection
    /\ NoCalls

\* ------------------------------------------------------------------ reader
\* A reader that took UnexpectedEof for the peer closing at every read.
ReadFailure_EofOkAnywhere(stage, kind) ==
    IF kind = "UnexpectedEof"
    THEN [ret |-> "Ok", stage |-> stage, kind |-> kind]
    ELSE [ret |-> "Err", stage |-> stage, kind |-> kind]

\* What reader() returns when the read at `stage` fails with an error of
\* `kind`: only the read of the four command bytes treats UnexpectedEof as
\* the peer closing; every other read propagates its error with `?`.
ReadFailure(stage, kind) ==
    IF stage = "command" /\ kind = "UnexpectedEof"
    THEN [ret |-> "Ok", stage |-> stage, kind |-> kind]
    ELSE [ret |-> "Err", stage |-> stage, kind |-> kind]

ErrorKinds == {"UnexpectedEof", "Other"}

\* What can follow each command on the wire.
Bodies(command) ==
    IF command = OP_REQ_DEVLIST THEN { [status |-> 0] }
    ELSE IF command = OP_REQ_IMPORT
    THEN { [status |-> 0, bus_id |-> b] : b \in PeerBusIds }
    ELSE IF command = USBIP_CMD_SUBMIT
    THEN { [seq_num |-> s.seq_num, submit |-> s] : s \in PeerSubmits }
    ELSE { [seq_num |-> u.seq_num, unlink |-> u.data] : u \in PeerUnlinks }

\* The reads the reader makes between the command and the push.
BodyStages(command, body) ==
    IF command \in {OP_REQ_DEVLIST} THEN {"status"}
    ELSE IF command = USBIP_CMD_SUBMIT
    THEN {"status", "header"}
         \cup (IF body.submit.hdr[5] > 0 THEN {"payload"} ELSE {})
    ELSE {"status", "header"}

\* The UsbIpPacket the reader builds from a command and what followed it.
Decode(id, command, body) ==
    IF command = OP_REQ_DEVLIST
    THEN [id |-> id, sequence_number |-> 0, status |-> body.status,
          command |-> command, enum_command |-> "ReqDevlist", data |-> <<>>]
    ELSE IF command = OP_REQ_IMPORT
    THEN [id |-> id, sequence_number |-> 0, status |-> body.status,
          command |-> command, enum_command |-> "ReqImport",
          data |-> body.bus_id]
    ELSE IF command = USBIP_CMD_SUBMIT
    THEN LET transfer_buffer_length == body.submit.hdr[5]
             request_buffer ==
                 SubSeq(body.submit.payload, 1, transfer_buffer_length)
         IN  [id |-> id, sequence_number |-> body.seq_num, status |-> 0,
              command |-> command, enum_command |-> "CmdSubmit",
              data |-> body.submit.hdr \o body.submit.setup \o request_buffer]
    ELSE [id |-> id, sequence_number |-> body.seq_num, status |-> 0,
          command |-> command, enum_command |-> "CmdUnlink",
          data |-> body.unlink]

\* read_u32: four bytes, big-endian.
U32Value(b) ==
    LET top == IF b[1] < 128 THEN b[1] ELSE b[1] - 256
    IN  ((top * 256 + b[2]) * 256 + b[3]) * 256 + b[4]

\* Whether n bytes hold fewer than the u32 len asks for.
Short(n, len) == len < 0 \/ n < len

\* The first n u32 of the bytes, as a cursor over them reads them.
Words(bytes, n) == [k \in 1..n |-> U32Value(SubSeq(bytes, 4 * k - 3, 4 * k))]

Drop(s, n) == SubSeq(s, n + 1, Len(s))

\* The bytes of a frame as the peer puts them on the wire.  A USBIP_CMD_UNLINK
\* ends with 24 bytes of padding.
PeerFrame(command, body) ==
    IF command = OP_REQ_DEVLIST THEN command \o U32Bytes(body.status)
    ELSE IF command = OP_REQ_IMPORT
    THEN command \o U32Bytes(body.status) \o body.bus_id
    ELSE IF command = USBIP_CMD_SUBMIT
    THEN command \o U32Bytes(body.seq_num)
         \o Flatten([k \in 1..8 |-> U32Bytes(body.submit.hdr[k])])
         \o body.submit.setup \o body.submit.payload
    ELSE IF command = USBIP_CMD_UNLINK
    THEN command \o U32Bytes(body.seq_num)
         \o Flatten([k \in 1..4 |-> U32Bytes(body.unlink[k])])
         \o Zeros(6 * 4)
    ELSE command

\* The frames the peer may send.
PeerFrames ==
    UNION { { PeerFrame(c, body) : body \in Bodies(c) } :
              c \in Commands \ {UnknownCommand} }
    \cup { PeerFrame(UnknownCommand, <<>>) }

\* The frames sent to a server without devices: there is nothing to attach
\* to, the peer lists, tries an import or sends what is no command.
ListingFrames ==
    { PeerFrame(OP_REQ_DEVLIST, [status |-> 0]),
      PeerFrame(OP_REQ_IMPORT,
                [status |-> 0, bus_id |-> Resize(<<48>>, BUS_ID_LEN)]),
      PeerFrame(UnknownCommand, <<>>) }

\* The frames sent to a server with one device: the peer attaches to it,
\* reads its device descriptor and unlinks.
AttachFrames ==
    { PeerFrame(OP_REQ_IMPORT,
                [status |-> 0, bus_id |-> Resize(<<48>>, BUS_ID_LEN)]) }
    \cup { PeerFrame(USBIP_CMD_SUBMIT, body) :
             body \in { b \in Bodies(USBIP_CMD_SUBMIT) : b.seq_num = 0 } }
    \cup { PeerFrame(USBIP_CMD_UNLINK, body) :
             body \in Bodies(USBIP_CMD_UNLINK) }

\* The frames sent to a server with two devices: the peer lists them and
\* imports one, the other or one that is not there ("0", "1", "2").
ImportFrames ==
    { PeerFrame(OP_REQ_DEVLIST, [status |-> 0]) }
    \cup { PeerFrame(OP_REQ_IMPORT,
                     [status |-> 0, bus_id |-> Resize(<<b>>, BUS_ID_LEN)]) :
             b \in {48, 49, 50} }

PeerFramesOf(devices) ==
    IF devices = <<>> THEN ListingFrames
    ELSE IF Len(devices) = 1 THEN AttachFrames
    ELSE IF Len(devices) = 2 THEN ImportFrames
    ELSE PeerFrames

\* A reader that took the four bytes after an unknown command with it.
UnknownCommandRead_SkipsStatus(bytes) ==
    [kind |-> "unknown", rest |-> Drop(bytes, 8)]

\* The catch-all arm of the match: the command is logged, nothing more is
\* read on its behalf.
UnknownCommandRead(bytes) ==
    [kind |-> "unknown", rest |-> Drop(bytes, 4)]

\* One turn of the reader's loop over the bytes of the stream, up to the push:
\* the read it blocks at when the bytes do not suffice, or the command it
\* read with what followed it and the bytes left.  A USBIP_CMD_SUBMIT is
\* followed by transfer_buffer_length bytes whatever its direction.
ReadCommand(bytes) ==
    LET command == SubSeq(bytes, 1, 4)
        blocked(stage) == [kind |-> "blocked", stage |-> stage]
        u32 == U32Value(SubSeq(bytes, 5, 8))
    IN  IF Len(bytes) < 4 THEN blocked("command")
        ELSE IF command \notin Commands \ {UnknownCommand}
        THEN UnknownCommandRead(bytes)
        ELSE IF Len(bytes) < 8 THEN blocked("status")
        ELSE IF command = OP_REQ_DEVLIST
        THEN [kind |-> "packet", command |-> command,
              body |-> [status |-> u32], rest |-> Drop(bytes, 8)]
        ELSE IF command = OP_REQ_IMPORT
        THEN IF Len(bytes) < 8 + BUS_ID_LEN THEN blocked("header")
             ELSE [kind |-> "packet", command |-> command,
                   body |-> [status |-> u32,
                             bus_id |-> SubSeq(bytes, 9, 8 + BUS_ID_LEN)],
                   rest |-> Drop(bytes, 8 + BUS_ID_LEN)]
        ELSE IF command = USBIP_CMD_SUBMIT
        THEN IF Len(bytes) < 8 + 40 THEN blocked("header")
             ELSE LET hdr == Words(SubSeq(bytes, 9, 40), 8)
                      transfer_buffer_length == hdr[5]
                  IN  IF Short(Len(bytes) - 48, transfer_buffer_length)
                      THEN blocked("payload")
                      ELSE [kind |-> "packet", command |-> command,
                            body |->
                                [seq_num |-> u32,
                                 submit |->
                                    [seq_num |-> u32, hdr |-> hdr,
                                     setup |-> SubSeq(bytes, 41, 48),
                                     payload |->
                                        SubSeq(bytes, 49,
                                               48 + transfer_buffer_length)]],
                            rest |-> Drop(bytes, 48 + transfer_buffer_length)]
        ELSE IF Len(bytes) < 8 + 16 THEN blocked("header")
             ELSE [kind |-> "packet", command |-> command,
                   body |-> [seq_num |-> u32,
                             unlink |-> Words(SubSeq(bytes, 9, 24), 4)],
                   rest |-> Drop(bytes, 8 + 16)]

\* The reads of the turn that may fail: the one the reader is blocked at, or
\* any of the turn when the bytes had all been sent.
FailureStages(bytes) ==
    LET r == ReadCommand(bytes)
    IN  IF r.kind = "blocked" THEN {r.stage}
        ELSE IF r.kind = "unknown" THEN {"command"}
        ELSE {"command"} \cup BodyStages(r.command, r.body)

ReaderReturn(result) ==
    /\ rpc' = "done"
    /\ rresult' = result
    /\ rpkt' = NoPacket

\* What the reader does with a command it has read: an unknown one is logged
\* and the loop reads again, any other is made a packet to push.
ReaderTakes(r) ==
    /\ stream' = r.rest
    /\ IF r.kind = "unknown"
       THEN UNCHANGED << rpc, rpkt, rresult >>
       ELSE /\ rpkt' = Decode(Cardinality(pushed) + 1, r.command, r.body)
            /\ rpc' = "push"
            /\ UNCHANGED rresult

\* One turn of the loop up to the push.  The bytes already sent are read
\* first; when they do not suffice the reader waits for the peer, which
\* sends its next frame, or the read fails: the stream ended or broke.
ReaderRead ==
    /\ rpc = "command"
    /\ \/ /\ ReadCommand(stream).kind # "blocked"
          /\ ReaderTakes(ReadCommand(stream))
          /\ UNCHANGED nread
       \/ /\ ReadCommand(stream).kind = "blocked"
          /\ nread < MaxLen
          /\ nread' = nread + 1
          /\ \E frame \in PeerFramesOf(server) :
                \/ LET r == ReadCommand(stream \o frame)
                   IN  IF r.kind = "blocked"
                       THEN /\ stream' = stream \o frame
                            /\ UNCHANGED << rpc, rpkt, rresult >>
                       ELSE ReaderTakes(r)
                \/ /\ \E stage \in FailureStages(stream \o frame) \ {"command"},
                         kind \in ErrorKinds :
                         ReaderReturn(ReadFailure(stage, kind))
                   /\ UNCHANGED stream
       \/ /\ \E stage \in FailureStages(stream), kind \in ErrorKinds :
                ReaderReturn(ReadFailure(stage, kind))
          /\ UNCHANGED << nread, stream >>
    /\ UNCHANGED << server, parked, callVars,
                    packet_queue, lock, writerVars, out, historyVars >>

\* packet_queue.lock().await.push(..): waits for the mutex, appends at the
\* tail and releases.  After an UNLINK the 24 padding bytes are still to read.
ReaderPush ==
    /\ rpc = "push"
    /\ lock = "free"
    /\ packet_queue' = Append(packet_queue, rpkt)
    /\ rpc' = IF rpkt.enum_command = "CmdUnlink" THEN "padding" ELSE "command"
    /\ rpkt' = NoPacket
    /\ pushed' = pushed \cup
          { [id |-> rpkt.id, enum_command |-> rpkt.enum_command] }
    /\ UNCHANGED << server, parked, callVars,
                    lock, rresult, nread, stream, writerVars, out,
                    iter_queue, cancelled, dispatched, urb_results >>

\* socket.read_exact(&mut padding) after an UNLINK was pushed.
ReaderReadPadding ==
    /\ rpc = "padding"
    /\ \/ /\ Len(stream) >= 6 * 4
          /\ stream' = Drop(stream, 6 * 4)
          /\ rpc' = "command"
          /\ UNCHANGED << rpkt, rresult, nread >>
       \/ /\ Len(stream) < 6 * 4
          /\ nread < MaxLen
          /\ nread' = nread + 1
          /\ \E frame \in PeerFramesOf(server) : stream' = stream \o frame
          /\ UNCHANGED << rpc, rpkt, rresult >>
       \/ /\ \E kind \in ErrorKinds : ReaderReturn(ReadFailure("padding", kind))
          /\ UNCHANGED << nread, stream >>
    /\ UNCHANGED << server, parked, callVars,
                    packet_queue, lock, writerVars, out, historyVars >>

\* ------------------------------------------------------------------ writer
\* Cursor::read_u32().await.unwrap_or_default() on the k-th u32 of the data.
CursorU32(data, k) == IF k <= Len(data) THEN data[k] ELSE 0

\* The USBIP_RET_UNLINK frame for the UNLINK packet u.
RetUnlink(u, status_code) ==
    LET dev_id == CursorU32(u.data, 1)
        direction == CursorU32(u.data, 2)
        ep == CursorU32(u.data, 3)
    IN  [kind |-> "RET_UNLINK", id |-> u.id, req |-> u,
         words |-> <<4, u.sequence_number, dev_id, direction, ep, status_code>>,
         bytes |-> Zeros(6 * 4), recs |-> <<>>]

\* What one pass of the loop over usubmit_items does to the queue for the
\* UNLINK packet u: the first packet whose sequence number is the one to
\* unlink is removed, then the first packet whose sequence number is u's own.
Unlink(queue, u) ==
    LET seq_num_submit == CursorU32(u.data, 4)
        position == Position(queue, seq_num_submit)
        status_code == IF position # 0 THEN -ECONNRESET ELSE 0
        q1 == IF position # 0 THEN RemoveAt(queue, position) ELSE queue
        position2 == Position(q1, u.sequence_number)
        q2 == IF position2 # 0 THEN RemoveAt(q1, position2) ELSE q1
    IN  [queue |-> q2, status_code |-> status_code,
         target |-> IF position # 0 THEN {queue[position]} ELSE {},
         self |-> IF position2 # 0 THEN {q1[position2]} ELSE {}]

\* The head is popped into current_pkt when the queue is not empty, and then
\* queue.remove(0) runs once more whatever the queue holds: Vec::remove
\* panics on an empty vector.
PopHead(queue, sleep) ==
    LET popped == Len(queue) > 0
        q1 == IF popped THEN Tail(queue) ELSE queue
    IN  [current_pkt |-> IF popped THEN Head(queue) ELSE NoPacket,
         go_to_sleep |-> IF popped THEN sleep ELSE sleep + 1,
         panic |-> Len(q1) = 0,
         queue |-> IF Len(q1) = 0 THEN q1 ELSE Tail(q1)]

\* A writer that listed the devices with write_dev, without the interfaces.
RepDevlist_NoInterfaces(pkt, devices) ==
    [kind |-> "REP_DEVLIST", id |-> pkt.id, req |-> pkt,
     words |-> <<17891333, 0, Len(devices)>>, bytes |-> <<>>,
     recs |-> [i \in 1..Len(devices) |->
                 [dev |-> i, len |-> WriteDevLen(devices[i])]]]

\* OP_REP_DEVLIST: the code, status 0, the device count, then every device
\* with its interfaces.
RepDevlist(pkt, devices) ==
    [kind |-> "REP_DEVLIST", id |-> pkt.id, req |-> pkt,
     words |-> <<17891333, 0, Len(devices)>>, bytes |-> <<>>,
     recs |-> [i \in 1..Len(devices) |->
                 [dev |-> i, len |-> WriteDevWithInterfacesLen(devices[i])]]]

\* A search without the break: the last matching device wins.
FindImportDevice_LastMatch(devices, bus_id) ==
    LET matches(i) == Resize(devices[i].bus_id, BUS_ID_LEN) = bus_id
    IN  IF \E i \in 1..Len(devices) : matches(i)
        THEN CHOOSE i \in 1..Len(devices) :
                matches(i) /\ \A j \in (i + 1)..Len(devices) : ~matches(j)
        ELSE 0

\* The device an OP_REQ_IMPORT selects: the first whose bus_id, resized to 32
\* bytes, equals the request's bytes; 0 for None.
FindImportDevice(devices, bus_id) ==
    LET matches(i) == Resize(devices[i].bus_id, BUS_ID_LEN) = bus_id
    IN  IF \E i \in 1..Len(devices) : matches(i)
        THEN CHOOSE i \in 1..Len(devices) :
                matches(i) /\ \A j \in 1..(i - 1) : ~matches(j)
        ELSE 0

\* A writer that keeps the device it has once selected.
SelectImportDevice_FirstImportWins(previous, devices, bus_id) ==
    IF previous # 0 THEN previous ELSE FindImportDevice(devices, bus_id)

\* A writer that did not reset current_import_device before the search.
SelectImportDevice_KeepsPrevious(previous, devices, bus_id) ==
    IF FindImportDevice(devices, bus_id) # 0
    THEN FindImportDevice(devices, bus_id)
    ELSE previous

\* current_import_device after an OP_REQ_IMPORT: it is set to None before the
\* search, so the device selected before plays no part.
SelectImportDevice(previous, devices, bus_id) ==
    FindImportDevice(devices, bus_id)

\* OP_REP_IMPORT: the code, then status 0 and the device record, or status 1.
RepImport(pkt, devices, device) ==
    [kind |-> "REP_IMPORT", id |-> pkt.id, req |-> pkt,
     words |-> <<17891331, IF device # 0 THEN 0 ELSE 1>>, bytes |-> <<>>,
     recs |-> IF device # 0
              THEN << [dev |-> device, len |-> WriteDevLen(devices[device])] >>
              ELSE <<>>]

\* ep | 0x80 as u8.
\* A writer that took every transfer for an IN transfer.
RealEp_AlwaysIn(direction, ep) ==
    (IF (ep \div 128) % 2 = 1 THEN ep ELSE ep + 128) % 256

RealEp(direction, ep) ==
    (IF direction = 0 THEN ep
     ELSE IF (ep \div 128) % 2 = 1 THEN ep ELSE ep + 128) % 256

\* A writer that reported the request's transfer_buffer_length as the
\* actual length.
RetSubmit_RequestLength(pkt, resp) ==
    [kind |-> "RET_SUBMIT", id |-> pkt.id, req |-> pkt,
     words |-> <<3, pkt.sequence_number, CursorU32(pkt.data, 1),
                 CursorU32(pkt.data, 2), CursorU32(pkt.data, 3), 0,
                 CursorU32(pkt.data, 5), 0, 0, 0>>,
     bytes |-> SubSeq(pkt.data, 9, 16) \o resp, recs |-> <<>>]

\* USBIP_RET_SUBMIT for the packet and the device's response.
RetSubmit(pkt, resp) ==
    LET dev_id == CursorU32(pkt.data, 1)
        direction == CursorU32(pkt.data, 2)
        ep == CursorU32(pkt.data, 3)
        setup == SubSeq(pkt.data, 9, 16)
    IN  [kind |-> "RET_SUBMIT", id |-> pkt.id, req |-> pkt,
         words |-> <<3, pkt.sequence_number, dev_id, direction, ep, 0,
                     Len(resp), 0, 0, 0>>,
         bytes |-> setup \o resp, recs |-> <<>>]

\* The writer ends: with an error returned or with a panic.  Either way the
\* queue guard it may hold is dropped.
WriterEnds(how) ==
    /\ wpc' = "done"
    /\ wresult' = how
    /\ lock' = "free"

\* let mut queue = packet_queue.lock().await, and the first loop: the UNLINK
\* packets in the queue are cloned into usubmit_items.
WriterLock ==
    /\ wpc = "lock"
    /\ lock = "free"
    /\ lock' = "writer"
    /\ usubmit_items' =
          SelectSeq(packet_queue, LAMBDA p : p.enum_command = "CmdUnlink")
    /\ iter_queue' = packet_queue
    /\ wpc' = "unlink"
    /\ UNCHANGED << server, parked, callVars,
                    packet_queue, readerVars, pending, current_pkt,
                    current_import_device, go_to_sleep, duration, wresult,
                    out, pushed, cancelled, dispatched, urb_results >>

\* One pass of the loop over usubmit_items, up to its socket writes.
WriterUnlinkRemove ==
    /\ wpc = "unlink"
    /\ usubmit_items # <<>>
    /\ LET u == Head(usubmit_items)
           r == Unlink(packet_queue, u)
       IN  /\ packet_queue' = r.queue
           /\ pending' = RetUnlink(u, r.status_code)
           /\ cancelled' = cancelled \cup
                 { [by |-> u.id, id |-> t.id, enum_command |-> t.enum_command] :
                     t \in r.target }
    /\ wpc' = "unlink_write"
    /\ UNCHANGED << server, parked, callVars,
                    lock, readerVars, usubmit_items, current_pkt,
                    current_import_device, go_to_sleep, duration, wresult,
                    out, pushed, iter_queue, dispatched, urb_results >>

\* The socket writes of the USBIP_RET_UNLINK, made with the queue locked.  A
\* failed write returns the error; what it leaves on a broken socket is not
\* counted as written.
WriterUnlinkWrite ==
    /\ wpc = "unlink_write"
    /\ \/ /\ out' = Append(out, pending)
          /\ usubmit_items' = Tail(usubmit_items)
          /\ wpc' = "unlink"
          /\ UNCHANGED << lock, wresult >>
       \/ /\ WriterEnds("Err")
          /\ UNCHANGED << out, usubmit_items >>
    /\ pending' = NoFrame
    /\ UNCHANGED << server, parked, callVars,
                    packet_queue, readerVars, current_pkt,
                    current_import_device, go_to_sleep, duration,
                    historyVars >>

\* A writer that kept the guard until the end of the iteration.
WriterPop_KeepsLock ==
    /\ wpc = "unlink"
    /\ usubmit_items = <<>>
    /\ LET r == PopHead(packet_queue, go_to_sleep)
       IN  /\ packet_queue' = r.queue
           /\ go_to_sleep' = r.go_to_sleep
           /\ IF r.panic
              THEN /\ WriterEnds("Panic")
                   /\ current_pkt' = NoPacket
              ELSE /\ current_pkt' = r.current_pkt
                   /\ wpc' = IF r.current_pkt # NoPacket THEN "dispatch"
                             ELSE "sleep"
                   /\ UNCHANGED << lock, wresult >>
    /\ iter_queue' = <<>>
    /\ UNCHANGED << server, parked, callVars,
                    readerVars, usubmit_items, pending,
                    current_import_device, duration, out, pushed, cancelled,
                    dispatched, urb_results >>

\* After the UNLINKs: pop the head, remove(0) again, drop the guard.
WriterPop ==
    /\ wpc = "unlink"
    /\ usubmit_items = <<>>
    /\ LET r == PopHead(packet_queue, go_to_sleep)
       IN  /\ packet_queue' = r.queue
           /\ go_to_sleep' = r.go_to_sleep
           /\ IF r.panic
              THEN /\ WriterEnds("Panic")
                   /\ current_pkt' = NoPacket
              ELSE /\ lock' = "free"
                   /\ current_pkt' = r.current_pkt
                   /\ wpc' = IF r.current_pkt # NoPacket THEN "dispatch"
                             ELSE "sleep"
                   /\ UNCHANGED wresult
    /\ iter_queue' = <<>>
    /\ UNCHANGED << server, parked, callVars,
                    readerVars, usubmit_items, pending,
                    current_import_device, duration, out, pushed, cancelled,
                    dispatched, urb_results >>

\* The socket writes of one response of the dispatch.
WriteResponse(frame) ==
    \/ /\ out' = Append(out, frame)
       /\ wpc' = "sleep"
       /\ UNCHANGED << lock, wresult >>
    \/ /\ WriterEnds("Err")
       /\ UNCHANGED out

\* The match on current_pkt.enum_command.
WriterDispatch ==
    /\ wpc = "dispatch"
    /\ go_to_sleep' = 0
    /\ current_pkt' = NoPacket
    /\ \/ /\ current_pkt.enum_command = "ReqDevlist"
          /\ WriteResponse(RepDevlist(current_pkt, server))
          /\ UNCHANGED << current_import_device, dispatched, urb_results >>
       \/ /\ current_pkt.enum_command = "ReqImport"
          /\ IF Len(current_pkt.data) # BUS_ID_LEN
             THEN /\ WriterEnds("Panic")
                  /\ UNCHANGED << out, current_import_device >>
             ELSE LET device == SelectImportDevice(current_import_device,
                                                   server, current_pkt.data)
                  IN  /\ current_import_device' = device
                      /\ WriteResponse(RepImport(current_pkt, server, device))
          /\ UNCHANGED << dispatched, urb_results >>
       \/ /\ current_pkt.enum_command = "CmdSubmit"
          /\ LET direction == CursorU32(current_pkt.data, 2)
                 ep == CursorU32(current_pkt.data, 3)
                 transfer_buffer_length == CursorU32(current_pkt.data, 5)
                 real_ep == RealEp(direction, ep)
             IN  IF Short(Len(current_pkt.data) - 16, transfer_buffer_length)
                 THEN /\ WriterEnds("Err")
                      /\ UNCHANGED << out, dispatched, urb_results >>
                 ELSE IF current_import_device = 0
                 THEN /\ WriterEnds("Panic")
                      /\ UNCHANGED << out, dispatched, urb_results >>
                 ELSE /\ dispatched' = dispatched \cup {current_pkt.id}
                      /\ IF ~FindEp(server[current_import_device], real_ep)
                         THEN /\ WriterEnds("Panic")
                              /\ UNCHANGED << out, urb_results >>
                         ELSE \E r \in HandleUrbResults(
                                         server[current_import_device], real_ep) :
                                 /\ urb_results' = urb_results \cup
                                       { [id |-> current_pkt.id, ok |-> r.ok,
                                          resp |-> r.resp] }
                                 /\ IF r.ok
                                    THEN WriteResponse(
                                            RetSubmit(current_pkt, r.resp))
                                    ELSE /\ WriterEnds("Err")
                                         /\ UNCHANGED out
          /\ UNCHANGED current_import_device
       \/ /\ current_pkt.enum_command = "CmdUnlink"
          /\ WriterEnds("Panic")
          /\ UNCHANGED << out, current_import_device, dispatched, urb_results >>
    /\ UNCHANGED << server, parked, callVars,
                    packet_queue, readerVars, usubmit_items, pending,
                    duration, pushed, iter_queue, cancelled >>

\* The sleep at the end of an iteration: a millisecond once ten idle
\* iterations were counted, 250 microseconds otherwise.
WriterSleep ==
    /\ wpc = "sleep"
    /\ duration' = IF go_to_sleep >= 10 THEN 1000 ELSE 250
    /\ wpc' = "lock"
    /\ UNCHANGED << server, parked, callVars,
                    packet_queue, lock, readerVars, usubmit_items,
                    pending, current_pkt, current_import_device, go_to_sleep,
                    wresult, out, historyVars >>

Next ==
    \/ ReaderRead
    \/ ReaderPush
    \/ ReaderReadPadding
    \/ WriterLock
    \/ WriterUnlinkRemove
    \/ WriterUnlinkWrite
    \/ WriterPop
    \/ WriterDispatch
    \/ WriterSleep

Spec == Init /\ [][Next]_vars

\* ------------------------------------------------------------ connections
\* What lives on a connection: the queue and its mutex created for it, the
\* two halves of its socket, the locals of its reader and of its writer, and
\* their history.
ConnectionState ==
    [ packet_queue |-> packet_queue, lock |-> lock,
      rpc |-> rpc, rpkt |-> rpkt, rresult |-> rresult, stream |-> stream,
      wpc |-> wpc, usubmit_items |-> usubmit_items, pending |-> pending,
      current_pkt |-> current_pkt,
      current_import_device |-> current_import_device,
      go_to_sleep |-> go_to_sleep, duration |-> duration,
      wresult |-> wresult, out |-> out, pushed |-> pushed,
      iter_queue |-> iter_queue, cancelled |-> cancelled,
      dispatched |-> dispatched, urb_results |-> urb_results ]

\* A connection as accept leaves it: an empty queue of its own, a reader and
\* a writer at the top of their loops, no import device selected.
FreshConnection ==
    [ packet_queue |-> <<>>, lock |-> "free",
      rpc |-> "command", rpkt |-> NoPacket, rresult |-> Running,
      stream |-> <<>>,
      wpc |-> "lock", usubmit_items |-> <<>>, pending |-> NoFrame,
      current_pkt |-> NoPacket, current_import_device |-> 0,
      go_to_sleep |-> 0, duration |-> 0, wresult |-> "running",
      out |-> <<>>, pushed |-> {}, iter_queue |-> <<>>, cancelled |-> {},
      dispatched |-> {}, urb_results |-> {} ]

\* One queue for all connections, as if it were created before the accept
\* loop: the tasks that come to run find the queue the others left.
Resume_SharedQueue(c) ==
    /\ UNCHANGED << packet_queue, lock >>
    /\ rpc' = c.rpc
    /\ rpkt' = c.rpkt
    /\ rresult' = c.rresult
    /\ stream' = c.stream
    /\ wpc' = c.wpc
    /\ usubmit_items' = c.usubmit_items
    /\ pending' = c.pending
    /\ current_pkt' = c.current_pkt
    /\ current_import_device' = c.current_import_device
    /\ go_to_sleep' = c.go_to_sleep
    /\ duration' = c.duration
    /\ wresult' = c.wresult
    /\ out' = c.out
    /\ pushed' = c.pushed
    /\ iter_queue' = c.iter_queue
    /\ cancelled' = c.cancelled
    /\ dispatched' = c.dispatched
    /\ urb_results' = c.urb_results

\* The tasks of connection c come to run: they work on the clones of the
\* queue and on the socket halves that were moved into them, and on their
\* own locals.
Resume(c) ==
    /\ packet_queue' = c.packet_queue
    /\ lock' = c.lock
    /\ rpc' = c.rpc
    /\ rpkt' = c.rpkt
    /\ rresult' = c.rresult
    /\ stream' = c.stream
    /\ wpc' = c.wpc
    /\ usubmit_items' = c.usubmit_items
    /\ pending' = c.pending
    /\ current_pkt' = c.current_pkt
    /\ current_import_device' = c.current_import_device
    /\ go_to_sleep' = c.go_to_sleep
    /\ duration' = c.duration
    /\ wresult' = c.wresult
    /\ out' = c.out
    /\ pushed' = c.pushed
    /\ iter_queue' = c.iter_queue
    /\ cancelled' = c.cancelled
    /\ dispatched' = c.dispatched
    /\ urb_results' = c.urb_results

\* listener.accept() returns a second socket: a new queue is made, the
\* server's Arc is cloned and a reader and a writer are spawned.  The peer's
\* connecting counts among what the peers do, as a frame does.
Accept ==
    /\ parked = NoConnection
    /\ nread < MaxLen
    /\ nread' = nread + 1
    /\ parked' = FreshConnection
    /\ UNCHANGED << server, callVars, packet_queue, lock, rpc, rpkt, rresult,
                    stream,
                    writerVars, out, historyVars >>

\* The executor turns from the tasks of one connection to those of the other.
Switch ==
    /\ parked # NoConnection
    /\ Resume(parked)
    /\ parked' = ConnectionState
    /\ UNCHANGED << server, callVars, nread >>

\* A server of one device that accepts two connections; nread counts what
\* the peers have done on both.
ServerInit ==
    /\ Init
    /\ server = <<DevA>>

ServerNext ==
    \/ Next
    \/ Accept
    \/ Switch

ServerSpec == ServerInit /\ [][ServerNext]_vars

\* ------------------------------------------------------ verify_descriptor
\* The buffers verify_descriptor is called with: every sequence of up to
\* MaxDescLen bytes, each of 0..MaxDescLen.
Descriptors ==
    UNION { [1..n -> 0..MaxDescLen] : n \in 0..MaxDescLen }

\* An assertion that lets a walk pass that went beyond the end.
AssertEq_AtLeast(left, right) == left >= right

\* assert_eq!(offset, desc.len())
AssertEq(left, right) == left = right

\* One turn of the loop: offset < desc.len(), so desc[offset] is inside the
\* buffer (Rust counts from 0), and offset moves on by that byte.  The turns
\* are counted up to one more than the buffer has bytes.
VerifyDescriptorLoop ==
    /\ vresult = "walking"
    /\ offset < Len(desc)
    /\ turns <= Len(desc)
    /\ offset' = offset + desc[offset + 1]
    /\ turns' = turns + 1
    /\ UNCHANGED << server, parked, desc, vresult, urb, packet_queue, lock,
                    readerVars, writerVars, out, historyVars >>

\* The loop is left and the assertion decides: the call returns or panics.
VerifyDescriptorAssert ==
    /\ vresult = "walking"
    /\ ~(offset < Len(desc))
    /\ vresult' = IF AssertEq(offset, Len(desc)) THEN "returned"
                  ELSE "panicked"
    /\ UNCHANGED << server, parked, desc, offset, turns, urb, packet_queue,
                    lock,
                    readerVars, writerVars, out, historyVars >>

\* verify_descriptor is called with one of the buffers; no connection is
\* involved.
VerifyInit ==
    /\ server = <<>>
    /\ InitConnection
    /\ desc \in Descriptors
    /\ offset = 0
    /\ turns = 0
    /\ vresult = "walking"
    /\ urb = NoCall

VerifyNext ==
    \/ VerifyDescriptorLoop
    \/ VerifyDescriptorAssert

VerifySpec == VerifyInit /\ [][VerifyNext]_vars

\* --------------------------------------------- UsbHostInterfaceHandler
\* EndpointAttributes as u8.
Control == 0
Isochronous == 1
Bulk == 2
Interrupt == 3

\* The endpoints of a host device: OUT and IN endpoint 1 of every transfer
\* type, with a max_packet_size of 0 or MaxPacketSize.
HostEndpoints ==
    { [address |-> a, attributes |-> t, max_packet_size |-> m] :
        a \in {1, 129}, t \in {Control, Isochronous, Bulk, Interrupt},
        m \in {0, MaxPacketSize} }

\* UsbEndpoint::direction(): bit 7 of the address.
Direction(ep) == IF ep.address >= 128 THEN "In" ELSE "Out"

\* What the transfer on the host device does when it is given n bytes of
\* buffer: it moves len <= n bytes, or fails, by timeout or otherwise.  The
\* k-th byte a read brings is k.
HostTransfers(n) ==
    { [ok |-> TRUE, len |-> len, kind |-> ""] : len \in 0..n }
    \cup { [ok |-> FALSE, len |-> 0, kind |-> k] : k \in {"Timeout", "Io"} }

\* The calls of handle_urb: an endpoint, the bytes of the request and what
\* the host transfer will do.
HostCalls ==
    { [state |-> "called", ep |-> ep, req |-> req, transfer |-> t,
       result |-> <<>>] :
        ep \in HostEndpoints, req \in {<<>>, <<9>>},
        t \in HostTransfers(MaxPacketSize) }

\* A handler that hands the error of a failed read on to its caller.
HostHandleUrb_PropagatesError(ep, req, transfer) ==
    LET buffer == [i \in 1..ep.max_packet_size |->
                      IF transfer.ok /\ i <= transfer.len THEN i ELSE 0]
        read == IF transfer.ok
                THEN [ok |-> TRUE, resp |-> SubSeq(buffer, 1, transfer.len)]
                ELSE [ok |-> FALSE, resp |-> <<>>]
    IN  IF ep.attributes \in {Control, Interrupt, Bulk}
           /\ Direction(ep) = "In"
        THEN read
        ELSE [ok |-> TRUE, resp |-> <<>>]

\* handle_urb: a buffer of max_packet_size zeros; a control, interrupt or
\* bulk IN endpoint reads into it and returns the bytes read, an OUT
\* endpoint of these types writes req and drops the outcome; whatever did
\* not return by then returns Ok(vec![]).
HostHandleUrb(ep, req, transfer) ==
    LET buffer == [i \in 1..ep.max_packet_size |->
                      IF transfer.ok /\ i <= transfer.len THEN i ELSE 0]
        read == IF transfer.ok
                THEN [ok |-> TRUE, resp |-> SubSeq(buffer, 1, transfer.len)]
                ELSE [ok |-> TRUE, resp |-> <<>>]
    IN  IF ep.attributes = Control
        THEN IF Direction(ep) = "In" THEN read
             ELSE [ok |-> TRUE, resp |-> <<>>]
        ELSE IF ep.attributes = Interrupt
        THEN IF Direction(ep) = "In" THEN read
             ELSE [ok |-> TRUE, resp |-> <<>>]
        ELSE IF ep.attributes = Bulk
        THEN IF Direction(ep) = "In" THEN read
             ELSE [ok |-> TRUE, resp |-> <<>>]
        ELSE [ok |-> TRUE, resp |-> <<>>]

\* The call runs to its return.
HandleUrb ==
    /\ urb # NoCall
    /\ urb.state = "called"
    /\ urb' = [urb EXCEPT !.state = "returned",
                          !.result = HostHandleUrb(urb.ep, urb.req,
                                                   urb.transfer)]
    /\ UNCHANGED << server, parked, desc, offset, turns, vresult,
                    packet_queue, lock, readerVars, writerVars, out,
                    historyVars >>

\* handle_urb is called on an endpoint whose buffer the transfer fits; no
\* connection is involved.
HostInit ==
    /\ server = <<>>
    /\ InitConnection
    /\ desc = <<>>
    /\ offset = 0
    /\ turns = 0
    /\ vresult = "none"
    /\ urb \in { c \in HostCalls :
                    c.transfer.len <=
                        IF Direction(c.ep) = "In" THEN c.ep.max_packet_size
                        ELSE Len(c.req) }

HostNext == HandleUrb

HostSpec == HostInit /\ [][HostNext]_vars

\* The steps the server takes by itself.  tokio runs every spawned task that
\* can run and hands the mutex to its waiters in turn, so the next step of
\* the writer, and of the reader, happens once it stays possible.  A read
\* waits for the peer: a read of bytes that have arrived completes, but nothing makes
\* the peer send, close or break the stream.
FairSpec ==
    /\ Spec
    /\ WF_vars(\/ ReadCommand(stream).kind # "blocked" /\ ReaderRead
               \/ Len(stream) >= 6 * 4 /\ ReaderReadPadding
               \/ ReaderPush)
    /\ WF_vars(\/ WriterLock
               \/ WriterUnlinkRemove
               \/ WriterUnlinkWrite
               \/ WriterPop
               \/ WriterDispatch
               \/ WriterSleep)

\* ------------------------------------------------------- reading the state
Ids(q) == { q[i].id : i \in 1..Len(q) }

\* The bytes a frame puts on the wire before its device records: every word
\* as four big-endian bytes, then the raw bytes.
FrameBytes(f) ==
    Flatten([i \in 1..Len(f.words) |-> I32Bytes(f.words[i])]) \o f.bytes

RECURSIVE SumLen(_)
SumLen(recs) == IF recs = <<>> THEN 0 ELSE Head(recs).len + SumLen(Tail(recs))

\* The number of bytes a frame puts on the wire.
FrameLen(f) == Len(FrameBytes(f)) + SumLen(f.recs)

\* The ids answered with a frame of one of the kinds, in the order written.
Answered(kinds) ==
    LET sel == SelectSeq(out, LAMBDA f : f.kind \in kinds)
    IN  [i \in 1..Len(sel) |-> sel[i].id]

\* ------------------------------------------------------------------ claims

\* C1: if the queue as the writer locks it holds a CmdUnlink U and a CmdSubmit
\* S whose sequence number is the one U asks to unlink, then once the
\* iteration's UNLINK processing is over S is out of the queue, was not
\* dispatched, and the USBIP_RET_UNLINK written for U has status -ECONNRESET.
\* (S is taken to be the first such SUBMIT and U the first such UNLINK of the
\* queue, so that only one cancellation is expected.)
C1_QueuedTargetIsCancelled ==
    (wpc = "unlink" /\ usubmit_items = <<>>) =>
        \A i, j \in 1..Len(iter_queue) :
            LET U == iter_queue[i]
                S == iter_queue[j]
                targets(u, p) ==
                    /\ u.enum_command = "CmdUnlink"
                    /\ p.enum_command = "CmdSubmit"
                    /\ p.sequence_number = CursorU32(u.data, 4)
            IN  ( /\ targets(U, S)
                  /\ \A k \in 1..(i - 1) : ~targets(iter_queue[k], S)
                  /\ \A k \in 1..(j - 1) : ~targets(U, iter_queue[k]) )
                => /\ S.id \notin Ids(packet_queue)
                   /\ S.id \notin dispatched
                   /\ \E k \in 1..Len(out) :
                         /\ out[k].kind = "RET_UNLINK"
                         /\ out[k].id = U.id
                         /\ out[k].words[6] = -ECONNRESET

\* C2: the writer never takes a packet out of the queue without either making
\* it the current packet of that iteration, or removing it as the packet an
\* UNLINK asks to unlink, or removing it as the UNLINK being answered.
C2_NoPacketSilentlyDropped ==
    [][ \A i \in 1..Len(packet_queue) :
            LET p == packet_queue[i]
            IN  p.id \notin Ids(packet_queue')
                => \/ current_pkt' # NoPacket /\ current_pkt'.id = p.id
                   \/ \E c \in cancelled' : c.id = p.id
                   \/ pending' # NoFrame /\ pending'.id = p.id ]_vars

\* C3: the packets answered with a response other than USBIP_RET_UNLINK are
\* answered in the order they were pushed (ids grow in push order), none
\* skipped: every non-UNLINK packet pushed before an answered one was itself
\* answered before it, or was cancelled.
C3_AnsweredInEnqueueOrder ==
    LET answered == Answered({"REP_DEVLIST", "REP_IMPORT", "RET_SUBMIT"})
    IN  \A k \in 1..Len(answered) :
            /\ \A j \in 1..(k - 1) : answered[j] < answered[k]
            /\ \A p \in pushed :
                  (p.enum_command # "CmdUnlink" /\ p.id < answered[k])
                      => \/ \E j \in 1..(k - 1) : answered[j] = p.id
                         \/ \E c \in cancelled : c.id = p.id

\* C5: a USBIP_RET_UNLINK has status -ECONNRESET only when the UNLINK it
\* answers removed a CmdSubmit carrying the sequence number to unlink, and
\* status 0 otherwise.
C5_UnlinkStatusTellsCancelledSubmit ==
    \A k \in 1..Len(out) :
        out[k].kind = "RET_UNLINK" =>
            LET cancelledSubmit ==
                    \E c \in cancelled :
                        /\ c.by = out[k].id
                        /\ c.enum_command = "CmdSubmit"
            IN  out[k].words[6] = IF cancelledSubmit THEN -ECONNRESET ELSE 0

\* C6: whenever the writer is about to dispatch a CmdSubmit the connection is
\* attached: a device was selected by an OP_REQ_IMPORT processed before.
C6_SubmitDispatchedOnlyWhenAttached ==
    (wpc = "dispatch" /\ current_pkt.enum_command = "CmdSubmit")
        => current_import_device # 0

\* C4: every USBIP_RET_SUBMIT written answers a dispatched CmdSubmit with the
\* bytes 00 00 00 03, the request's seq, dev_id, direction and endpoint,
\* status 0, actual_length n, three zero words, the request's setup bytes and
\* the n bytes the device returned, 0x30 + n bytes in all; no request gets two
\* of them, and a request the device answered gets one unless that socket
\* write failed.
C4_RetSubmitFrame ==
    /\ \A k \in 1..Len(out) :
          out[k].kind = "RET_SUBMIT" =>
              LET f == out[k]
                  p == f.req
              IN  /\ \E r \in urb_results :
                        /\ r.id = f.id
                        /\ r.ok
                        /\ FrameBytes(f) =
                              U32Bytes(3) \o U32Bytes(p.sequence_number)
                              \o U32Bytes(p.data[1]) \o U32Bytes(p.data[2])
                              \o U32Bytes(p.data[3]) \o U32Bytes(0)
                              \o U32Bytes(Len(r.resp)) \o Zeros(12)
                              \o SubSeq(p.data, 9, 16) \o r.resp
                        /\ FrameLen(f) = 48 + Len(r.resp)
                  /\ \A k2 \in 1..Len(out) :
                        (out[k2].kind = "RET_SUBMIT" /\ out[k2].id = f.id)
                            => k2 = k
    /\ \A r \in urb_results :
          r.ok => \/ \E k \in 1..Len(out) :
                        out[k].kind = "RET_SUBMIT" /\ out[k].id = r.id
                  \/ /\ wpc = "done"
                     /\ wresult = "Err"
                     /\ \A r2 \in urb_results : r2.id <= r.id

\* C4 witness: a USBIP_RET_SUBMIT carrying the 18 bytes the device returned
\* has been written.
C4_Witness ==
    \E k \in 1..Len(out) : out[k].kind = "RET_SUBMIT" /\ out[k].words[7] = 18

\* The devices whose bus_id, zero-padded to 32 bytes, is the bus id of the
\* OP_REQ_IMPORT being dispatched.
MatchingDevices ==
    { i \in 1..Len(server) :
        [k \in 1..BUS_ID_LEN |->
            IF k <= Len(server[i].bus_id) THEN server[i].bus_id[k] ELSE 0]
        = current_pkt.data }

Least(S) == CHOOSE i \in S : \A j \in S : i <= j

\* C7: dispatching an OP_REQ_IMPORT whose bus id matches some device selects
\* the first such device of the server and, unless the socket write fails,
\* writes 01 11 00 03, status 0 and that device's 0x138-byte record, 0x140
\* bytes in all.
C7_ImportMatch ==
    [][ ( /\ wpc = "dispatch"
          /\ wpc' # "dispatch"
          /\ current_pkt.enum_command = "ReqImport"
          /\ MatchingDevices # {} )
        => /\ current_import_device' = Least(MatchingDevices)
           /\ \/ wresult' = "Err" /\ out' = out
              \/ /\ Len(out') = Len(out) + 1
                 /\ SubSeq(out', 1, Len(out)) = out
                 /\ LET f == out'[Len(out')]
                    IN  /\ FrameBytes(f) = <<1, 17, 0, 3, 0, 0, 0, 0>>
                        /\ f.recs = << [dev |-> Least(MatchingDevices),
                                        len |-> 312] >>
                        /\ FrameLen(f) = 320 ]_vars

\* C7 witness: an OP_REP_IMPORT with status 0 was written and the second
\* device of the server, the first of the two with bus id "0", is selected.
C7_Witness ==
    /\ current_import_device = 2
    /\ \E k \in 1..Len(out) :
          out[k].kind = "REP_IMPORT" /\ out[k].words[2] = 0

\* C8: dispatching an OP_REQ_IMPORT whose bus id matches no device leaves no
\* device selected and, unless the socket write fails, writes exactly the 8
\* bytes 01 11 00 03 00 00 00 01 and no device record, and the writer goes on
\* to its next iteration.
C8_ImportMiss ==
    [][ ( /\ wpc = "dispatch"
          /\ wpc' # "dispatch"
          /\ current_pkt.enum_command = "ReqImport"
          /\ MatchingDevices = {} )
        => /\ current_import_device' = 0
           /\ \/ wresult' = "Err" /\ out' = out
              \/ /\ Len(out') = Len(out) + 1
                 /\ SubSeq(out', 1, Len(out)) = out
                 /\ LET f == out'[Len(out')]
                    IN  /\ FrameBytes(f) = <<1, 17, 0, 3, 0, 0, 0, 1>>
                        /\ f.recs = <<>>
                        /\ FrameLen(f) = 8
                 /\ wpc' = "sleep"
                 /\ wresult' = "running" ]_vars

\* C8 witness: an import that matched was answered, a later one that missed
\* was answered with status 1, no device is selected and the writer runs.
C8_Witness ==
    /\ current_import_device = 0
    /\ wresult = "running"
    /\ \E j, k \in 1..Len(out) :
          /\ j < k
          /\ out[j].kind = "REP_IMPORT" /\ out[j].words[2] = 0
          /\ out[k].kind = "REP_IMPORT" /\ out[k].words[2] = 1

RECURSIVE DevlistLen(_)
DevlistLen(devices) ==
    IF devices = <<>> THEN 0
    ELSE 312 + 4 * Len(Head(devices).interfaces) + DevlistLen(Tail(devices))

\* C9: dispatching an OP_REQ_DEVLIST changes neither the selected device nor
\* the server's devices and, unless the socket write fails, writes
\* 01 11 00 05, status 0, the device count and one record per device in
\* server order, each of 0x138 bytes and 4 more per interface.
C9_Devlist ==
    [][ ( /\ wpc = "dispatch"
          /\ wpc' # "dispatch"
          /\ current_pkt.enum_command = "ReqDevlist" )
        => /\ current_import_device' = current_import_device
           /\ server' = server
           /\ \/ wresult' = "Err" /\ out' = out
              \/ /\ Len(out') = Len(out) + 1
                 /\ SubSeq(out', 1, Len(out)) = out
                 /\ LET f == out'[Len(out')]
                    IN  /\ FrameBytes(f) =
                              <<1, 17, 0, 5, 0, 0, 0, 0>>
                              \o U32Bytes(Len(server))
                        /\ Len(f.recs) = Len(server)
                        /\ \A i \in 1..Len(server) :
                              f.recs[i] =
                                  [dev |-> i,
                                   len |-> 312 + 4 * Len(server[i].interfaces)]
                        /\ FrameLen(f) = 12 + DevlistLen(server) ]_vars

\* C9 witness: an OP_REP_DEVLIST listing three devices was written while a
\* device is selected.
C9_Witness ==
    /\ current_import_device # 0
    /\ \E k \in 1..Len(out) :
          out[k].kind = "REP_DEVLIST" /\ Len(out[k].recs) = 3

\* C10 as claimed: the reader returns Ok whenever a read fails with
\* UnexpectedEof, wherever in a command the stream ends.
C10_EofAlwaysOk ==
    (rpc = "done" /\ rresult.kind = "UnexpectedEof") => rresult.ret = "Ok"

\* C10 amended: the reader returns Ok exactly when the read of the four
\* command bytes fails with UnexpectedEof, and the error for UnexpectedEof in
\* the status, header, payload or padding and for every other read error;
\* once it has returned it enqueues nothing more.
C10_EofOkOnlyAtCommandRead ==
    [][ /\ rpc' = "done" =>
            ( rresult'.ret = "Ok" <=>
                (rresult'.kind = "UnexpectedEof" /\ rresult'.stage = "command") )
        /\ rpc' = "done" => rresult'.ret \in {"Ok", "Err"}
        /\ rpc = "done" =>
            /\ rpc' = "done"
            /\ rresult' = rresult
            /\ pushed' = pushed
            /\ Len(packet_queue') <= Len(packet_queue) ]_vars

\* C10 witness: the stream ended in the payload of a USBIP_CMD_SUBMIT and the
\* reader returned the error.
C10_Witness ==
    /\ rpc = "done"
    /\ rresult = [ret |-> "Err", stage |-> "payload", kind |-> "UnexpectedEof"]

\* C11: a CmdSubmit the reader has decoded holds, after its 8 header words
\* and 8 setup bytes, exactly transfer_buffer_length payload bytes when its
\* direction is OUT (0) and none when it is IN: nothing of the commands that
\* follow an IN SUBMIT was read as its payload.
C11_InSubmitReadsNoPayload ==
    (rpc = "push" /\ rpkt.enum_command = "CmdSubmit") =>
        Len(rpkt.data) - 16 =
            IF rpkt.data[2] = 0 THEN rpkt.data[5] ELSE 0

\* The four bytes in front of the reader are none of the four opcodes.
UnknownAhead(bytes) ==
    /\ Len(bytes) >= 4
    /\ SubSeq(bytes, 1, 4) \notin
          { <<1, 17, 128, 5>>, <<1, 17, 128, 3>>, <<0, 0, 0, 1>>, <<0, 0, 0, 2>> }

\* C12: when the reader reads four command bytes that are no opcode, exactly
\* those four bytes leave the stream, nothing is enqueued or prepared for
\* the queue, the selected device and the queue stay as they are and the
\* reader is at its next command read, not terminated.  (When the bytes come
\* with the frame the peer sends in that step, the frame is one of those it
\* may send.)
C12_UnknownCommandIsSkipped ==
    [][ LET skipped ==
                /\ rpc' = "command"
                /\ rresult' = rresult
                /\ rresult' = Running
                /\ rpkt' = rpkt
                /\ packet_queue' = packet_queue
                /\ pushed' = pushed
                /\ current_import_device' = current_import_device
                /\ server' = server
        IN  /\ ( /\ rpc = "command"
                 /\ UnknownAhead(stream)
                 /\ stream' # stream
                 /\ rpc' # "done" )
               => skipped /\ stream' = Drop(stream, 4) /\ nread' = nread
            /\ ( /\ rpc = "command"
                 /\ ~UnknownAhead(stream)
                 /\ nread' # nread
                 /\ rpc' = "command" )
               => /\ skipped
                  /\ \E frame \in PeerFramesOf(server) :
                        \/ /\ UnknownAhead(stream \o frame)
                           /\ stream' = Drop(stream \o frame, 4)
                        \/ /\ ~UnknownAhead(stream \o frame)
                           /\ stream' = stream \o frame ]_vars

\* C12 witness: a device is selected, no SUBMIT or UNLINK was pushed, and of
\* the frames sent one left no packet and no byte behind: it was the unknown
\* command, and the reader is at its next command read.
C12_Witness ==
    /\ current_import_device # 0
    /\ rpc = "command"
    /\ rresult = Running
    /\ stream = <<>>
    /\ nread = Cardinality(pushed) + 1
    /\ \A p \in pushed : p.enum_command \in {"ReqDevlist", "ReqImport"}

\* C13: a writer iteration that finds the queue empty after the UNLINK
\* processing leaves it empty, keeps the writer running, counts one more idle
\* iteration and goes to sleep.
C13_IdleIterationSleeps ==
    [][ ( /\ wpc = "unlink"
          /\ usubmit_items = <<>>
          /\ packet_queue = <<>>
          /\ wpc' # wpc )
        => /\ packet_queue' = <<>>
           /\ wresult' = "running"
           /\ wpc' = "sleep"
           /\ go_to_sleep' = go_to_sleep + 1 ]_vars

\* C14: a CmdSubmit whose handler call returned an error is answered with a
\* USBIP_RET_SUBMIT of status 0 and actual_length 0 carrying only the setup
\* bytes.
C14_HandlerErrorAnsweredEmpty ==
    \A r \in urb_results :
        ~r.ok =>
            \E k \in 1..Len(out) :
                /\ out[k].kind = "RET_SUBMIT"
                /\ out[k].id = r.id
                /\ out[k].words[6] = 0
                /\ out[k].words[7] = 0
                /\ Len(out[k].bytes) = 8

\* The endpoint address of the CmdSubmit being dispatched: the endpoint
\* number, with bit 7 set when the direction is not 0.
SubmitAddress ==
    LET direction == current_pkt.data[2]
        ep == current_pkt.data[3]
    IN  IF direction = 0 THEN ep % 256 ELSE (ep % 128) + 128

\* The endpoint addresses of the selected device: endpoint 0 in both
\* directions and the endpoints of its interfaces.
AttachedAddresses ==
    {0, 128} \cup
    UNION { server[current_import_device].interfaces[i] :
              i \in 1..Len(server[current_import_device].interfaces) }

\* C15: dispatching a CmdSubmit whose endpoint address is none of the
\* selected device's invokes no handler, writes nothing and ends the writer
\* with a panic; a writer that has ended writes nothing any more, so no
\* later packet of the connection is answered.
C15_EndpointMissAborts ==
    [][ /\ ( /\ wpc = "dispatch"
             /\ wpc' # "dispatch"
             /\ current_pkt.enum_command = "CmdSubmit"
             /\ current_import_device # 0
             /\ SubmitAddress \notin AttachedAddresses )
           => /\ urb_results' = urb_results
              /\ out' = out
              /\ wpc' = "done"
              /\ wresult' = "Panic"
        /\ wpc = "done"
           => /\ wpc' = "done"
              /\ out' = out
              /\ urb_results' = urb_results
              /\ dispatched' = dispatched ]_vars

\* C15 witness: the writer panicked on a CmdSubmit it looked the endpoint up
\* for: no handler was called for it and nothing was written for it.
C15_Witness ==
    /\ wpc = "done"
    /\ wresult = "Panic"
    /\ \E id \in dispatched :
          /\ \A r \in urb_results : r.id # id
          /\ \A k \in 1..Len(out) : out[k].id # id

\* C17: once the reader has returned Ok, a writer that has terminated has
\* terminated on a failed socket write: with an error, never with a panic,
\* and not on the error of a handler.
C17_WriterEndsOnlyOnWriteFailure ==
    (rpc = "done" /\ rresult.ret = "Ok" /\ wpc = "done")
        => /\ wresult = "Err"
           /\ \A r \in urb_results : r.ok

\* C19: whenever the writer is inside the dispatch of a packet the queue
\* mutex is free, so a reader that has a packet to push can push it.
C19_LockFreeDuringDispatch ==
    wpc = "dispatch" =>
        /\ lock = "free"
        /\ (rpc = "push" => ENABLED ReaderPush)

\* C19 witness: the writer is about to call find_ep and handle_urb for a
\* CmdSubmit on the selected device, the mutex is free and the reader runs.
C19_Witness ==
    /\ wpc = "dispatch"
    /\ current_pkt.enum_command = "CmdSubmit"
    /\ current_import_device # 0
    /\ lock = "free"
    /\ rpc # "done"

\* C20: no UNLINK is answered by two USBIP_RET_UNLINK, and when the UNLINK
\* processing of an iteration is over every CmdUnlink the writer found in
\* the queue has left the queue and has its USBIP_RET_UNLINK written:
\* command 4, its own seq, its dev_id, direction and endpoint, 24 zero bytes.
C20_OneRetUnlinkPerUnlink ==
    /\ \A j, k \in 1..Len(out) :
          ( /\ out[j].kind = "RET_UNLINK"
            /\ out[k].kind = "RET_UNLINK"
            /\ out[j].id = out[k].id ) => j = k
    /\ (wpc = "unlink" /\ usubmit_items = <<>>) =>
          \A i \in 1..Len(iter_queue) :
              LET u == iter_queue[i]
              IN  u.enum_command = "CmdUnlink" =>
                    /\ u.id \notin Ids(packet_queue)
                    /\ \E k \in 1..Len(out) :
                          /\ out[k].kind = "RET_UNLINK"
                          /\ out[k].id = u.id
                          /\ SubSeq(FrameBytes(out[k]), 1, 20) =
                                U32Bytes(4) \o U32Bytes(u.sequence_number)
                                \o U32Bytes(u.data[1]) \o U32Bytes(u.data[2])
                                \o U32Bytes(u.data[3])
                          /\ SubSeq(FrameBytes(out[k]), 25, 48) = Zeros(24)


\* C16: once a failed socket operation has ended one of the two tasks of a
\* connection, the other task of that connection ends as well: after the
\* reader returned an error the writer ends, and after a failed write ended
\* the writer (every handle_urb call before it had succeeded) the reader
\* ends.
C16_OtherTaskTerminates ==
    /\ (rpc = "done" /\ rresult.ret = "Err") ~> (wpc = "done")
    /\ (wpc = "done" /\ wresult = "Err"
          /\ \A r \in urb_results : r.ok) ~> (rpc = "done")


\* The packets a connection c holds or has handled: those in its queue, the
\* UNLINKs and the packet its writer is working on, those it answered and
\* those it removed as the target of an UNLINK.
HandledBy(c) ==
    { [id |-> c.packet_queue[i].id,
       enum_command |-> c.packet_queue[i].enum_command] :
         i \in 1..Len(c.packet_queue) }
    \cup { [id |-> c.usubmit_items[i].id,
            enum_command |-> c.usubmit_items[i].enum_command] :
              i \in 1..Len(c.usubmit_items) }
    \cup (IF c.current_pkt = NoPacket THEN {}
          ELSE { [id |-> c.current_pkt.id,
                  enum_command |-> c.current_pkt.enum_command] })
    \cup { [id |-> c.out[i].req.id,
            enum_command |-> c.out[i].req.enum_command] :
              i \in 1..Len(c.out) }
    \cup { [id |-> t.id, enum_command |-> t.enum_command] : t \in c.cancelled }

\* C18: connections are independent.  No step changes the server's device
\* list; a step of the reader or the writer of one connection leaves the
\* other connection's queue, selected import device and every other part of
\* its state as they were; the tasks of a connection find, when they come to
\* run again, exactly the queue and the state they left; and every packet a
\* connection's writer holds, has answered or has cancelled was pushed by
\* that connection's reader.
C18_ConnectionsIndependent ==
    [][ /\ server' = server
        /\ parked' # parked =>
              \/ /\ parked = NoConnection
                 /\ parked' = FreshConnection
                 /\ ConnectionState' = ConnectionState
              \/ /\ parked # NoConnection
                 /\ ConnectionState' = parked
                 /\ parked' = ConnectionState
        /\ HandledBy(ConnectionState)' \subseteq pushed'
        /\ parked' # NoConnection =>
              HandledBy(parked') \subseteq parked'.pushed ]_vars

\* Two connections: the writer of one has selected an import device and
\* written answers, the other has a packet of its own reader in its queue and
\* no import device.
C18_Witness ==
    /\ parked # NoConnection
    /\ current_import_device # 0
    /\ out # <<>>
    /\ parked.current_import_device = 0
    /\ parked.packet_queue # <<>>


\* The length bytes of d tile it: d is empty, or its first byte is the length
\* of a descriptor that fits and what follows that descriptor is tiled too.
RECURSIVE Tiles(_)
Tiles(d) ==
    \/ d = <<>>
    \/ /\ d[1] > 0
       /\ d[1] <= Len(d)
       /\ Tiles(Drop(d, d[1]))

\* The walk by length bytes comes to a descriptor whose length byte reaches
\* beyond the end of d.
RECURSIVE Overshoots(_)
Overshoots(d) ==
    /\ d # <<>>
    /\ d[1] > 0
    /\ \/ d[1] > Len(d)
       \/ d[1] <= Len(d) /\ Overshoots(Drop(d, d[1]))

\* C21: verify_descriptor returns exactly for the buffers whose length bytes
\* tile them, the empty buffer among them, and its assertion fails exactly
\* for those in which the last descriptor's length byte overshoots the end:
\* a call that has ended has returned if and only if the buffer is tiled
\* and has panicked if and only if the walk overshoots, and a call on a
\* tiled buffer or on an overshooting one never stays in a loop turn that
\* does not move.
C21_VerifyDescriptorAcceptsTilings ==
    /\ vresult = "returned" => Tiles(desc)
    /\ vresult = "panicked" => Overshoots(desc)
    /\ (vresult = "walking" /\ (Tiles(desc) \/ Overshoots(desc))
          /\ offset < Len(desc)) => desc[offset + 1] > 0
    /\ (vresult = "walking" /\ ~(offset < Len(desc))) =>
          /\ Tiles(desc) <=> offset = Len(desc)
          /\ Overshoots(desc) <=> offset > Len(desc)

\* The call has returned on a buffer of more than one descriptor.
C21_Witness ==
    /\ vresult = "returned"
    /\ desc # <<>>
    /\ desc[1] < Len(desc)

\* C27: verify_descriptor terminates on every buffer.  A turn of the loop
\* that ends moves offset on by at least 1 or leaves the call exactly where
\* it was, so the call terminates if and only if it makes no more turns
\* than the buffer has bytes.
C27_VerifyDescriptorTerminates == turns <= Len(desc)


\* C22: the host handler keeps the handler contract on every endpoint type
\* and direction.  handle_urb never returns an error; on an IN endpoint it
\* returns at most max_packet_size bytes, and none when the host transfer
\* failed or timed out; on an OUT endpoint and on an isochronous endpoint it
\* returns no bytes.
C22_HostHandlerContract ==
    (urb # NoCall /\ urb.state = "returned") =>
        /\ urb.result.ok
        /\ Direction(urb.ep) = "In" =>
              /\ Len(urb.result.resp) <= urb.ep.max_packet_size
              /\ ~urb.transfer.ok => urb.result.resp = <<>>
        /\ Direction(urb.ep) = "Out" => urb.result.resp = <<>>
        /\ urb.ep.attributes = Isochronous => urb.result.resp = <<>>

\* A bulk IN call has returned bytes, and fewer than the endpoint allows.
C22_Witness ==
    /\ urb # NoCall
    /\ urb.state = "returned"
    /\ urb.ep.attributes = Bulk
    /\ Direction(urb.ep) = "In"
    /\ urb.result.resp # <<>>
    /\ Len(urb.result.resp) < urb.ep.max_packet_size


\* C25: the selected import device reflects only the OP_REQ_IMPORT processed
\* last.  It is none as long as the reader has pushed no OP_REQ_IMPORT; the
\* dispatch of an OP_REQ_IMPORT sets it to the first device with the
\* request's bus id, whatever was selected before, and to none when there is
\* no such device; no other step of the writer or the reader changes it.
C25_SelectionFollowsLastImport ==
    [][ /\ (\A p \in pushed' : p.enum_command # "ReqImport")
              => current_import_device' = 0
        /\ IF /\ wpc = "dispatch"
              /\ wpc' # "dispatch"
              /\ current_pkt.enum_command = "ReqImport"
           THEN current_import_device' =
                   IF MatchingDevices # {} THEN Least(MatchingDevices) ELSE 0
           ELSE current_import_device' = current_import_device ]_vars

\* Two imports were answered with status 0 and the records of different
\* devices, and the device of the later one is selected.
C25_Witness ==
    \E j, k \in 1..Len(out) :
        /\ j < k
        /\ out[j].kind = "REP_IMPORT" /\ out[j].words[2] = 0
        /\ out[k].kind = "REP_IMPORT" /\ out[k].words[2] = 0
        /\ out[j].recs[1].dev # out[k].recs[1].dev
        /\ current_import_device = out[k].recs[1].dev


\* C23: processing a CmdUnlink removes from the queue only that UNLINK and
\* at most one CmdSubmit whose sequence number is the one to unlink: every
\* packet the step takes out of the queue is the UNLINK itself or such a
\* SUBMIT, and of such SUBMITs it takes at most one.
C23_UnlinkRemovesOnlyItsTarget ==
    [][ (wpc = "unlink" /\ wpc' = "unlink_write") =>
          LET u == Head(usubmit_items)
              removed == { packet_queue[i] : i \in
                             { k \in 1..Len(packet_queue) :
                                 packet_queue[k].id \notin Ids(packet_queue') } }
              targets == { p \in removed :
                             /\ p.id # u.id
                             /\ p.enum_command = "CmdSubmit"
                             /\ p.sequence_number = CursorU32(u.data, 4) }
          IN  /\ \A p \in removed : p.id = u.id \/ p \in targets
              /\ Cardinality(targets) <= 1 ]_vars

\* C24: when the writer comes to pop after its unlink phase, the queue holds
\* no CmdUnlink that was there when it locked the queue, and the packet it
\* dispatches is never a CmdUnlink, so the dispatch never panics on one.
C24_UnlinkNeverDispatched ==
    /\ (wpc = "unlink" /\ usubmit_items = <<>>) =>
          \A i \in 1..Len(packet_queue) :
              ~ ( /\ packet_queue[i].enum_command = "CmdUnlink"
                  /\ packet_queue[i].id \in Ids(iter_queue) )
    /\ wpc = "dispatch" => current_pkt.enum_command # "CmdUnlink"

\* C26: the writer never holds the queue mutex across a socket write:
\* whenever it is writing a USBIP_RET_UNLINK or a response of the dispatch,
\* the lock is free and the reader can push what it has decoded.
C26_LockFreeAcrossWrites ==
    wpc \in {"unlink_write", "dispatch"} =>
        /\ lock = "free"
        /\ rpc = "push" => ENABLED ReaderPush

====
